---- MODULE Spec2Model ----
(***************************************************************************)
(* Model of the evaluation utilities of TMVASummerProject:                 *)
(*   - CreateEnergyBinnedData and ComputeMetrics                           *)
(*     (src/src/evaluation/CreateEnergyBinnedData.C), the metrics of a     *)
(*     method per bin of true energy;                                      *)
(*   - UpdateOrInsertByKey (src/src/utils/UpdateOrInsertByKey.C), the      *)
(*     keyed upsert into a TTree stored in a ROOT file;                    *)
(*   - GetOptimalCut (src/src/evaluation/GetOptimalCut.C), the threshold   *)
(*     sweep, the FoM maximisation and the logging of its result.          *)
(***************************************************************************)
EXTENDS Integers, Sequences, FiniteSets, TLC

(***************************************************************************)
(* Bounds of the model.                                                    *)
(***************************************************************************)
\* number of distinct key strings the callers of the single-writer store use
NumKeys == 3

Keys == 1..NumKeys

\* names of the value branches the callers supply (any subset per call)
Cols == {"c1", "c2"}

\* the doubles the callers supply
Vals == {0, 1}

\* nBins of GetOptimalCut (1000 by default), kept small
NBins == 4

\* largest number of events in the Signal tree and the Background tree
\* together
MaxEvents == 2

\* largest true energy of an event and largest bin edge, in GeV
MaxEnergy == 2

\* the clock of CreateTimestampedDir: ticks per minute, last tick, calls made
TicksPerMinute == 2

MaxClock == 4

MaxCalls == 3

\* the largest CVN score, in steps of the smallest difference between scores
MaxCVN == 2

\* the calls of UpdateOrInsertByKey followed on one table
MaxUpserts == 3

\* the runs of DemoPipeline followed
MaxRuns == 2

\* the entries of the Signal or Background tree given to the training, and the
\* number of steps in which trainRatio goes from 0 to 1
MaxCount == 3

RatioSteps == 2

(***************************************************************************)
(* State.                                                                  *)
(***************************************************************************)
VARIABLES
    file,   \* what the ROOT file holds under treeName:
            \*   [exists, cols, rows]; a row is [key, vals], vals : cols -> double
    hist,   \* the last whole call of the single-writer store:
            \*   [outcome, key, values, pre, repeat]
    proc,   \* per caller, a call in progress, statement by statement:
            \*   [pc, key, values, pre, tree, cur, upd, n, updated]
    goc,    \* a call of GetOptimalCut:
            \*   [pc, mvaBranch, accessible, signal, background, logging, pre,
            \*    totalSignal,
            \*    cuts, efficiencies, purities, fomValues,
            \*    x, bestCut, bestFoM, bestEff, bestPur]
    ebd,    \* a call of CreateEnergyBinnedData:
            \*   [pc, energyBinEdges, accessible, columns, signal, background,
            \*    cut, pre, trace, i, rows, out]
    dirs,   \* the clock and the calls of CreateTimestampedDir:
            \*   [now, made, returned]
    cvn,    \* an evaluation of addCVNMax:
            \*   [pc, signalType, cvnNuE, cvnNuMu, cvnNC, maxScore,
            \*    predictedClass, result]
    split,  \* the train/test split of TrainClassificationModel:
            \*   [pc, nSignal, nBackground, trainRatio,
            \*    nTrain, nSignalTest, nBackgroundTest]
    demo,   \* the runs of DemoPipeline:
            \*   [pc, runs, m]
    calls   \* the calls of UpdateOrInsertByKey made on one table with one
            \* set of columns, in order: [key, values]

\* the state of the macros other than the store and the two evaluations
others == <<dirs, cvn, split, demo, calls>>

vars == <<file, hist, proc, goc, ebd, dirs, cvn, split, demo, calls>>

(***************************************************************************)
(* The stored table.                                                       *)
(***************************************************************************)
\* file.Get<TTree>(treeName) finds no key
Missing == [exists |-> FALSE, cols |-> {}, rows |-> <<>>]

Tree(cols, rows) == [exists |-> TRUE, cols |-> cols, rows |-> rows]

\* a tree that exists and has no branch and no entry
EmptyTree == Tree({}, <<>>)

\* the maps from a set of branch names to doubles a caller can pass as `values`
ValueMaps == UNION {[S -> Vals] : S \in SUBSET Cols}

KeysOf(rows) == {rows[n].key : n \in 1..Len(rows)}

(***************************************************************************)
(* UpdateOrInsertByKey, statement by statement.                            *)
(***************************************************************************)
\* lines 58-62: the tree read from the file, or a new tree without entries
GetTree(f) == IF f.exists THEN f ELSE EmptyTree

\* lines 66-73 and 82: the holders, one per name of `values`, set to 0.0
InitHolderStale(values) == values

InitHolder(values) == [c \in DOMAIN values |-> 0]

\* lines 84-89 and 100: tree->GetEntry(n) stores entry n's values in the
\* holders bound to branches the stored tree has; the holder of a branch that
\* was only just created by line 72 has no entry to read and keeps its value
ReadEntry(tree, n, cur) ==
    [c \in DOMAIN cur |-> IF c \in tree.cols THEN tree.rows[n].vals[c] ELSE cur[c]]

\* lines 102-115: the row the loop body leaves in the write holders
CopiedRowKeepOld(currentKey, cur, keyValue, values) ==
    [key |-> currentKey, vals |-> cur]

CopiedRow(currentKey, cur, keyValue, values) ==
    [key  |-> currentKey,
     vals |-> [c \in DOMAIN cur |->
                 IF currentKey = keyValue /\ c \in DOMAIN values
                 THEN values[c] ELSE cur[c]]]

\* lines 123-126 and 136-139: the row filled for keyValue itself
NewEntryUnset(keyValue, values) == [key |-> keyValue, vals |-> [c \in DOMAIN values |-> 0]]

NewEntry(keyValue, values) == [key |-> keyValue, vals |-> values]

\* line 121: whether the row for keyValue is appended after the loop
AppendNeededAlways(entryUpdated) == TRUE

AppendNeeded(entryUpdated) == ~entryUpdated

\* lines 121-128: tmpTree after the append step
AppendedFirst(upd, keyValue, values) == <<NewEntry(keyValue, values)>> \o upd

Appended(upd, keyValue, values) == Append(upd, NewEntry(keyValue, values))

\* lines 98-118: the loop over the entries n..GetEntries() of the old tree;
\* st = [rows, cur, updated] is tmpTree's rows, currentValuesHolder and
\* entryUpdated before iteration n
RECURSIVE CopyLoop(_, _, _, _, _)
CopyLoop(tree, n, st, keyValue, values) ==
    IF n > Len(tree.rows) THEN st
    ELSE LET cur == ReadEntry(tree, n, st.cur)
             k   == tree.rows[n].key
         IN  CopyLoop(tree, n + 1,
                      [rows    |-> Append(st.rows, CopiedRow(k, cur, keyValue, values)),
                       cur     |-> cur,
                       updated |-> st.updated \/ (k = keyValue)],
                      keyValue, values)

\* lines 77-132: the tree written over treeName when the old tree has entries
UpdatedTree(tree, keyValue, values) ==
    LET st == CopyLoop(tree, 1,
                       [rows |-> <<>>, cur |-> InitHolder(values), updated |-> FALSE],
                       keyValue, values)
    IN  Tree(DOMAIN values,
             IF AppendNeeded(st.updated)
             THEN Appended(st.rows, keyValue, values)
             ELSE st.rows)

\* lines 134-141: the tree written when the old tree is new or has no entry
FirstTree(tree, keyValue, values) ==
    Tree(DOMAIN values, <<NewEntry(keyValue, values)>>)

\* lines 57-142: the table under treeName after a call that could open the file
UpsertResult(f, keyValue, values) ==
    LET tree == GetTree(f)
    IN  IF Len(tree.rows) > 0
        THEN UpdatedTree(tree, keyValue, values)
        ELSE FirstTree(tree, keyValue, values)

(***************************************************************************)
(* The store used by one writer at a time: each call runs to its end.      *)
(***************************************************************************)
NoCall == [outcome |-> "none", key |-> 0, values |-> <<>>, pre |-> Missing,
           repeat |-> FALSE]

\* the callers; W1 alone in the runs with one writer
Writers == {"W1", "W2"}

Idle == [pc |-> "idle", key |-> 0, values |-> <<>>, pre |-> Missing,
         tree |-> Missing, cur |-> <<>>, upd |-> <<>>, n |-> 0, updated |-> FALSE]

\* GetOptimalCut not entered
NotCalled == [pc |-> "idle"]

\* CreateEnergyBinnedData not entered
NotBinned == [pc |-> "idle"]

\* no other macro has been called
NoDirs == [now |-> 0, made |-> {}, returned |-> <<>>]

NotScored == [pc |-> "idle"]

NotSplit == [pc |-> "idle"]

NotRun == [pc |-> "idle", runs |-> 0]

InitOthers ==
    /\ dirs = NoDirs
    /\ cvn = NotScored
    /\ split = NotSplit
    /\ demo = NotRun
    /\ calls = <<>>

Init ==
    /\ file \in {Missing, EmptyTree}
    /\ hist = NoCall
    /\ proc = [p \in Writers |-> Idle]
    /\ goc = NotCalled
    /\ ebd = NotBinned
    /\ InitOthers

\* a whole call, lines 45-147, the file opened
UpdateOrInsertByKey(keyValue, values) ==
    /\ file' = UpsertResult(file, keyValue, values)
    /\ hist' = [outcome |-> "ok", key |-> keyValue, values |-> values, pre |-> file,
                repeat  |-> /\ hist.outcome = "ok"
                            /\ hist.key = keyValue
                            /\ hist.values = values]
    /\ UNCHANGED <<proc, goc, ebd, others>>

\* lines 52-55: the file cannot be opened, the call throws
OpenFails ==
    /\ file' = file
    /\ hist' = [NoCall EXCEPT !.outcome = "error", !.pre = file]
    /\ UNCHANGED <<proc, goc, ebd, others>>

Next ==
    \/ \E k \in Keys, v \in ValueMaps : UpdateOrInsertByKey(k, v)
    \/ OpenFails

Spec == Init /\ [][Next]_vars


(***************************************************************************)
(* The same call, one statement at a time, for callers that are            *)
(* interrupted or that run side by side.                                   *)
(***************************************************************************)
Goto(p, loc) == proc' = [proc EXCEPT ![p].pc = loc]

\* line 45: a caller enters UpdateOrInsertByKey
Begin(p, keyValue, values) ==
    /\ proc[p].pc \in {"idle", "done", "failed", "interrupted"}
    /\ proc' = [proc EXCEPT ![p] = [Idle EXCEPT !.pc = "open", !.key = keyValue,
                                               !.values = values, !.pre = file]]
    /\ UNCHANGED <<file, hist, goc, ebd, others>>

\* lines 52-55: TFile file(filePath, "UPDATE") opens
Open(p) ==
    /\ proc[p].pc = "open"
    /\ Goto(p, "get")
    /\ UNCHANGED <<file, hist, goc, ebd, others>>

\* lines 52-55: it does not open, the call throws
OpenThrowsLate(p) ==
    /\ proc[p].pc = "writenew"
    /\ Goto(p, "failed")
    /\ UNCHANGED <<file, hist, goc, ebd, others>>

OpenThrows(p) ==
    /\ proc[p].pc = "open"
    /\ Goto(p, "failed")
    /\ UNCHANGED <<file, hist, goc, ebd, others>>

\* lines 58-62: the tree is read from the file, or created
Get(p) ==
    /\ proc[p].pc = "get"
    /\ proc' = [proc EXCEPT ![p].pc = "bind", ![p].tree = GetTree(file)]
    /\ UNCHANGED <<file, hist, goc, ebd, others>>

\* lines 64-96: holders, branches, entryUpdated, the test of line 77, tmpTree
Bind(p) ==
    /\ proc[p].pc = "bind"
    /\ proc' = [proc EXCEPT
                  ![p].pc = IF Len(proc[p].tree.rows) > 0 THEN "copy" ELSE "fill",
                  ![p].cur = InitHolder(proc[p].values),
                  ![p].upd = <<>>,
                  ![p].n = 1,
                  ![p].updated = FALSE]
    /\ UNCHANGED <<file, hist, goc, ebd, others>>

\* lines 99-118: one iteration of the copy loop
CopyEntry(p) ==
    /\ proc[p].pc = "copy"
    /\ proc[p].n <= Len(proc[p].tree.rows)
    /\ LET cur == ReadEntry(proc[p].tree, proc[p].n, proc[p].cur)
           k   == proc[p].tree.rows[proc[p].n].key
       IN  proc' = [proc EXCEPT
                      ![p].cur = cur,
                      ![p].upd = Append(proc[p].upd,
                                        CopiedRow(k, cur, proc[p].key, proc[p].values)),
                      ![p].updated = proc[p].updated \/ (k = proc[p].key),
                      ![p].n = proc[p].n + 1]
    /\ UNCHANGED <<file, hist, goc, ebd, others>>

\* lines 120-128: the loop is over; the row of a key not met is appended
AppendEntry(p) ==
    /\ proc[p].pc = "copy"
    /\ proc[p].n > Len(proc[p].tree.rows)
    /\ proc' = [proc EXCEPT
                  ![p].pc = "write",
                  ![p].upd = IF AppendNeeded(proc[p].updated)
                             THEN Appended(proc[p].upd, proc[p].key, proc[p].values)
                             ELSE proc[p].upd]
    /\ UNCHANGED <<file, hist, goc, ebd, others>>

\* line 132, Write(treeName, TObject::kOverwrite), first half: kOverwrite
\* deletes the key that holds treeName before the new object is written
DeleteOldKey(p) ==
    /\ proc[p].pc = "write"
    /\ Goto(p, "writenew")
    /\ file' = Missing
    /\ UNCHANGED <<hist, goc, ebd, others>>

\* lines 131-132, second half: tmpTree is written under treeName
WriteNewKey(p) ==
    /\ proc[p].pc = "writenew"
    /\ Goto(p, "close")
    /\ file' = Tree(DOMAIN proc[p].values, proc[p].upd)
    /\ UNCHANGED <<hist, goc, ebd, others>>

\* lines 134-141: tree->Fill(); tree->Write() of a tree without entries
FillFirst(p) ==
    /\ proc[p].pc = "fill"
    /\ Goto(p, "close")
    /\ file' = FirstTree(proc[p].tree, proc[p].key, proc[p].values)
    /\ UNCHANGED <<hist, goc, ebd, others>>

\* lines 144-146: file.Close(), the call returns
Close(p) ==
    /\ proc[p].pc = "close"
    /\ Goto(p, "done")
    /\ UNCHANGED <<file, hist, goc, ebd, others>>

InCall == {"open", "get", "bind", "copy", "write", "writenew", "fill", "close"}

\* the process is stopped between two statements of the call
Interrupt(p) ==
    /\ proc[p].pc \in InCall
    /\ Goto(p, "interrupted")
    /\ UNCHANGED <<file, hist, goc, ebd, others>>

Step(p) ==
    \/ Open(p)
    \/ OpenThrows(p)
    \/ Get(p)
    \/ Bind(p)
    \/ CopyEntry(p)
    \/ AppendEntry(p)
    \/ DeleteOldKey(p)
    \/ WriteNewKey(p)
    \/ FillFirst(p)
    \/ Close(p)

\* one writer, which may be interrupted
NextInterrupt ==
    \/ /\ proc["W1"].pc \notin InCall
       /\ \E k \in Keys, v \in ValueMaps : Begin("W1", k, v)
    \/ Step("W1")
    \/ Interrupt("W1")

SpecInterrupt == Init /\ [][NextInterrupt]_vars

(***************************************************************************)
(* One call, statement by statement, on a table that earlier calls left.   *)
(***************************************************************************)
\* the tables one whole call leaves, and those a second call makes of them
AfterOneCall ==
    {UpsertResult(f, k, v) : f \in {Missing, EmptyTree}, k \in Keys, v \in ValueMaps}

AfterTwoCalls ==
    {UpsertResult(f, k, v) : f \in AfterOneCall, k \in Keys, v \in ValueMaps}

InitOpen ==
    /\ file \in {Missing, EmptyTree} \cup AfterOneCall \cup AfterTwoCalls
    /\ hist = NoCall
    /\ proc = [p \in Writers |-> Idle]
    /\ goc = NotCalled
    /\ ebd = NotBinned
    /\ InitOthers

NextOpen ==
    \/ /\ proc["W1"].pc = "idle"
       /\ \E k \in Keys, v \in ValueMaps : Begin("W1", k, v)
    \/ Step("W1")

SpecOpen == InitOpen /\ [][NextOpen]_vars

(***************************************************************************)
(* GetOptimalCut run for two methods side by side on one results file.     *)
(***************************************************************************)
\* GetOptimalCut.C line 161: the key is the method (branch) name
Method(p) == IF p = "W1" THEN 1 ELSE 2

\* GetOptimalCut.C lines 139-144: results of two evaluations (bestCut, bestFoM,
\* bestEff, bestPur) that the callers log
Evaluations ==
    {[bestCut |-> 0, bestFoM |-> 1, bestEff |-> 1, bestPur |-> 1],
     [bestCut |-> 1, bestFoM |-> 0, bestEff |-> 1, bestPur |-> 0]}

\* GetOptimalCut.C lines 154-159
LogValuesNoPurity(g) ==
    [c \in {"MaxCut", "Efficiency", "FoM"} |->
        CASE c = "MaxCut"     -> g.bestCut
          [] c = "Efficiency" -> g.bestEff
          [] c = "FoM"        -> g.bestFoM]

LogValuesOf(g) ==
    [c \in {"MaxCut", "Efficiency", "Purity", "FoM"} |->
        CASE c = "MaxCut"     -> g.bestCut
          [] c = "Efficiency" -> g.bestEff
          [] c = "Purity"     -> g.bestPur
          [] c = "FoM"        -> g.bestFoM]

\* GetOptimalCut.C lines 151-162: the result is logged
LogResult(p, g) == Begin(p, Method(p), LogValuesOf(g))

NextParallel ==
    \/ \E p \in Writers, g \in Evaluations : LogResult(p, g)
    \/ \E p \in Writers : Step(p)

SpecParallel == Init /\ [][NextParallel]_vars


(***************************************************************************)
(* GetOptimalCut.  Scores are counted in half bin widths from minScore, so *)
(* minScore is 0, bin i of the nBins bins is [2(i-1), 2i) and maxScore is  *)
(* 2*nBins.  Efficiency, purity and FoM are exact fractions.               *)
(***************************************************************************)
MinScore == 0

MaxScore == 2 * NBins

\* the scores an event can have: in range, below minScore, at maxScore
Scores == (MinScore - 1)..MaxScore

\* the score columns of a tree, up to the order of the events
Samples ==
    {s \in UNION {[1..n -> Scores] : n \in 0..MaxEvents} :
        \A a, b \in DOMAIN s : a < b => s[a] <= s[b]}

RECURSIVE GCD(_, _)
GCD(a, b) == IF b = 0 THEN a ELSE GCD(b, a % b)

\* the double 0.0 / 0.0
NaN == [num |-> 0, den |-> 0]

\* the double a / b, 0 <= a <= b
Ratio(a, b) ==
    IF b = 0 THEN NaN ELSE [num |-> a \div GCD(a, b), den |-> b \div GCD(a, b)]

Zero == [num |-> 0, den |-> 1]

Times(p, q) == Ratio(p.num * q.num, p.den * q.den)

Less(p, q) == p.num * q.den < q.num * p.den

\* TH1::FindBin as Histo1D uses it (line 70): 0 is underflow, nBins+1 overflow
FindBin(score) ==
    IF score < MinScore THEN 0
    ELSE IF score >= MaxScore THEN NBins + 1
    ELSE ((score - MinScore) \div 2) + 1

\* lines 70-71: the histogram of a sample
Histo1D(sample) ==
    [b \in 0..(NBins + 1) |-> Cardinality({e \in DOMAIN sample : FindBin(sample[e]) = b})]

\* TH1::Integral(first, last): the content of bins first..last
RECURSIVE Integral(_, _, _)
Integral(h, first, last) ==
    IF first > last THEN 0 ELSE h[first] + Integral(h, first + 1, last)

\* line 73: hSignal.Integral() is the content of bins 1..nBins
TotalSignal(hSignal) == Integral(hSignal, 1, NBins)

\* line 88
GetBinUpEdge(i) == MinScore + 2 * i

GetBinLowEdge(i) == MinScore + 2 * (i - 1)

\* lines 89-94: the metrics of sweep point i
EfficiencyBelow(hSignal, i) == Ratio(Integral(hSignal, 1, i), TotalSignal(hSignal))

Efficiency(hSignal, i) == Ratio(Integral(hSignal, i, NBins), TotalSignal(hSignal))

Purity(hSignal, hBackground, i) ==
    LET tp == Integral(hSignal, i, NBins)
        fp == Integral(hBackground, i, NBins)
    IN  IF tp + fp > 0 THEN Ratio(tp, tp + fp) ELSE Zero

FoM(hSignal, hBackground, i) ==
    Times(Efficiency(hSignal, i), Purity(hSignal, hBackground, i))

\* lines 104-106, RooSpline::getVal: the spline through (cuts, values) read
\* at x, for x on a node
SplineVal(cuts, values, x) == values[CHOOSE i \in DOMAIN cuts : cuts[i] = x]

\* line 138: fomFunction is a TF1 with the default number of scan points,
\* 100 over [minScore, maxScore] against the 1000 nodes of the default nBins;
\* here the scan meets every ScanStride-th node, from the first on
ScanStride == 2

ScanPoints(cuts) == {i \in DOMAIN cuts : (i - 1) % ScanStride = 0}

\* line 139, TF1::GetMaximumX, the grid search: the first scan point whose
\* FoM no other scan point exceeds
GridBest(cuts, fomValues) ==
    CHOOSE i \in ScanPoints(cuts) :
        /\ \A j \in ScanPoints(cuts) : ~Less(fomValues[i], fomValues[j])
        /\ \A j \in ScanPoints(cuts) : j < i => Less(fomValues[j], fomValues[i])

\* the interval the grid search hands to Brent's method: one scan step to
\* either side of the best scan point
Bracket(cuts, best) ==
    {j \in DOMAIN cuts : best - ScanStride <= j /\ j <= best + ScanStride}

\* line 139, TF1::GetMaximumX: Brent's method inside the bracket; of the nodes
\* of the bracket, the lowest cut whose FoM no other node of it exceeds
GetMaximumX(cuts, fomValues) ==
    LET b == Bracket(cuts, GridBest(cuts, fomValues))
    IN  cuts[CHOOSE i \in b :
                /\ \A j \in b : ~Less(fomValues[i], fomValues[j])
                /\ \A j \in b : j < i => Less(fomValues[j], fomValues[i])]

\* line 142, TF1::GetMaximum: the search of GetMaximumX run again; every
\* evaluation of fomFunction sets x (line 134), the search leaves it at
\* lastTried, and the value returned is fomFunction evaluated once more at
\* the maximum found, which is where x is left
XAfterGetMaximumStale(cuts, fomValues, lastTried) == lastTried

XAfterGetMaximum(cuts, fomValues, lastTried) == GetMaximumX(cuts, fomValues)

\* lines 64-65: the trees of the scenario of four signal and four background
\* events with scores 0.9, 0.8, 0.7, 0.2 and 0.1, 0.2, 0.3, 0.9 on [0, 1),
\* in eighths
ScenarioSignal == <<7, 6, 5, 1>>

ScenarioBackground == <<0, 1, 2, 7>>

\* line 49: the call is entered; inputFile holds the two samples when it can
\* be read
Enter(mvaBranch, accessible, signal, background, logging) ==
    /\ goc.pc = "idle"
    /\ goc' = [pc |-> "check", mvaBranch |-> mvaBranch, accessible |-> accessible,
               signal |-> signal, background |-> background, logging |-> logging,
               pre |-> file]
    /\ UNCHANGED <<file, hist, proc, ebd, others>>

\* line 58: gSystem->AccessPathName is true when the path can not be accessed
AccessPathName(accessible) == ~accessible

\* line 74
SignalIsNegative(totalSignal) == totalSignal < 0

SignalIsEmpty(totalSignal) == totalSignal <= 0

\* lines 58-60: the input file is not there, the call throws
InputMissing ==
    /\ goc.pc = "check"
    /\ AccessPathName(goc.accessible)
    /\ goc' = [goc EXCEPT !.pc = "failed"]
    /\ UNCHANGED <<file, hist, proc, ebd, others>>

\* lines 70-76: the histograms; an empty signal histogram throws
EmptySignal ==
    /\ goc.pc = "check"
    /\ ~AccessPathName(goc.accessible)
    /\ LET totalSignal == TotalSignal(Histo1D(goc.signal))
       IN  /\ SignalIsEmpty(totalSignal)
           /\ goc' = [b \in DOMAIN goc \cup {"totalSignal"} |->
                        CASE b = "pc"          -> "failed"
                          [] b = "totalSignal" -> totalSignal
                          [] OTHER             -> goc[b]]
    /\ UNCHANGED <<file, hist, proc, ebd, others>>

\* lines 70-106: the histograms, the sweep and the three splines over x,
\* a RooRealVar that starts in the middle of its range
Sweep ==
    /\ goc.pc = "check"
    /\ ~AccessPathName(goc.accessible)
    /\ LET hSignal     == Histo1D(goc.signal)
           hBackground == Histo1D(goc.background)
       IN  /\ ~SignalIsEmpty(TotalSignal(hSignal))
           /\  goc' = [pc           |-> "maximise",
                        mvaBranch    |-> goc.mvaBranch,
                        accessible   |-> goc.accessible,
                        signal       |-> goc.signal,
                        background   |-> goc.background,
                        logging      |-> goc.logging,
                        pre          |-> goc.pre,
                        totalSignal  |-> TotalSignal(hSignal),
                        cuts         |-> [i \in 1..NBins |-> GetBinLowEdge(i)],
                        efficiencies |-> [i \in 1..NBins |-> Efficiency(hSignal, i)],
                        purities     |-> [i \in 1..NBins |-> Purity(hSignal, hBackground, i)],
                        fomValues    |-> [i \in 1..NBins |-> FoM(hSignal, hBackground, i)],
                        x            |-> (MinScore + MaxScore) \div 2]
    /\ UNCHANGED <<file, hist, proc, ebd, others>>

\* lines 132-140: bestCut = fomFunction.GetMaximumX(); x.setVal(bestCut)
FindBestCut ==
    /\ goc.pc = "maximise"
    /\ LET found == GetMaximumX(goc.cuts, goc.fomValues)
       IN  goc' = [b \in DOMAIN goc \cup {"bestCut"} |->
                      CASE b = "pc"      -> "getmaximum"
                        [] b = "bestCut" -> found
                        [] b = "x"       -> found
                        [] OTHER         -> goc[b]]
    /\ UNCHANGED <<file, hist, proc, ebd, others>>

\* line 142: bestFoM = fomFunction.GetMaximum()
FindBestFoM ==
    /\ goc.pc = "getmaximum"
    /\ \E lastTried \in {goc.cuts[i] : i \in DOMAIN goc.cuts} :
         LET xEnd == XAfterGetMaximum(goc.cuts, goc.fomValues, lastTried)
         IN  goc' = [b \in DOMAIN goc \cup {"bestFoM"} |->
                        CASE b = "pc"      -> "read"
                          [] b = "bestFoM" -> SplineVal(goc.cuts, goc.fomValues, xEnd)
                          [] b = "x"       -> xEnd
                          [] OTHER         -> goc[b]]
    /\ UNCHANGED <<file, hist, proc, ebd, others>>

\* lines 143-144: effSpline.getVal() and purSpline.getVal() read x
ReadSplines ==
    /\ goc.pc = "read"
    /\ goc' = [b \in DOMAIN goc \cup {"bestEff", "bestPur"} |->
                 CASE b = "pc"      -> "log"
                   [] b = "bestEff" -> SplineVal(goc.cuts, goc.efficiencies, goc.x)
                   [] b = "bestPur" -> SplineVal(goc.cuts, goc.purities, goc.x)
                   [] OTHER         -> goc[b]]
    /\ UNCHANGED <<file, hist, proc, ebd, others>>

\* lines 151-164: when resultsFile is given the result is logged by one call
\* of UpdateOrInsertByKey with the key branch "Method"; return bestCut
LogAndReturn ==
    /\ goc.pc = "log"
    /\ goc' = [goc EXCEPT !.pc = "done"]
    /\ IF goc.logging
       THEN /\ file' = UpsertResult(file, goc.mvaBranch, LogValuesOf(goc))
            /\ hist' = [outcome   |-> "ok",
                        keyBranch |-> "Method",
                        key       |-> goc.mvaBranch,
                        values    |-> LogValuesOf(goc),
                        pre       |-> file,
                        repeat    |-> hist.outcome = "ok"]
       ELSE UNCHANGED <<file, hist>>
    /\ UNCHANGED <<proc, ebd, others>>

NextCut ==
    \/ /\ goc.pc = "idle"
       /\ \/ \E sg \in Samples :
               \E bg \in {s \in Samples : Len(sg) + Len(s) <= MaxEvents} :
                 \E lg \in BOOLEAN : Enter(Method("W1"), TRUE, sg, bg, lg)
          \/ \E lg \in BOOLEAN :
               Enter(Method("W1"), TRUE, ScenarioSignal, ScenarioBackground, lg)
          \/ \E lg \in BOOLEAN : Enter(Method("W1"), FALSE, <<>>, <<>>, lg)
    \/ InputMissing
    \/ EmptySignal
    \/ Sweep
    \/ FindBestCut
    \/ FindBestFoM
    \/ ReadSplines
    \/ LogAndReturn

\* one evaluation, the results file not yet written
InitCut == Init /\ file = Missing

SpecCut == InitCut /\ [][NextCut]_vars

(***************************************************************************)
(* CreateEnergyBinnedData for one method.  Energies and bin edges are whole *)
(* numbers of GeV; a score and the cut are doubles compared by >.  An      *)
(* error is kept as the exact number under its square root.                *)
(***************************************************************************)
Energies == 0..MaxEnergy

\* the scores of the method an event can have, and the cuts applied to them
EventScores == {0, 1, 2}

CutValues == {0, 1}

Events == [TrueNuE : Energies, score : EventScores]

\* the Signal or Background tree, up to the order of its events
EventTrees ==
    {t \in UNION {[1..n -> Events] : n \in 0..MaxEvents} :
        \A a, b \in DOMAIN t :
            a < b => \/ t[a].TrueNuE < t[b].TrueNuE
                     \/ t[a].TrueNuE = t[b].TrueNuE /\ t[a].score <= t[b].score}

\* energyBinEdges as the callers pass it: increasing, of any length
EdgeLists ==
    {s \in UNION {[1..n -> Energies] : n \in 0..(MaxEnergy + 1)} :
        \A a, b \in DOMAIN s : a < b => s[a] < s[b]}

Plus(p, q) == Ratio(p.num * q.den + q.num * p.den, p.den * q.den)

\* sqrt(v): the double whose square is v
Sqrt(v) == [sq |-> v]

\* lines 52-53, 57-58: the value when the denominator is positive, else 0.0
Unguarded(denominator, value) == value

Guarded(denominator, value) == IF denominator > 0 THEN value ELSE Zero

\* lines 57-58: p * (1 - p) / n
PoissonVariance(p, n) == Ratio(p.num, p.den * n)

BinomialVariance(p, n) == Ratio(p.num * (p.den - p.num), p.den * p.den * n)

\* line 54
FoMOfPurity(efficiency, purity) == purity

FoMOf(efficiency, purity) == Times(efficiency, purity)

\* lines 49-62
ComputeMetrics(nSig, nBkg, totalSignal) ==
    LET efficiency == Guarded(totalSignal, Ratio(nSig, totalSignal))
        purity     == Guarded(nSig + nBkg, Ratio(nSig, nSig + nBkg))
        effErr     == Sqrt(Guarded(totalSignal, BinomialVariance(efficiency, totalSignal)))
        purErr     == Sqrt(Guarded(nSig + nBkg, BinomialVariance(purity, nSig + nBkg)))
    IN  [efficiency |-> efficiency,
         purity     |-> purity,
         fom        |-> FoMOf(efficiency, purity),
         effErr     |-> effErr,
         purErr     |-> purErr,
         fomErr     |-> Sqrt(Plus(Times(Times(purity, purity), effErr.sq),
                                  Times(Times(efficiency, efficiency), purErr.sq)))]

\* line 136: binMax of bin i is the edge after edge i
UpperEdgeLast(energyBinEdges, i) == energyBinEdges[Len(energyBinEdges)]

UpperEdge(energyBinEdges, i) == energyBinEdges[i + 1]

\* lines 140-141: Filter("TrueNuE >= binMin && TrueNuE < binMax"); %f prints
\* a whole number of GeV as it is
InBinClosed(tree, binMin, binMax) ==
    SelectSeq(tree, LAMBDA ev : ev.TrueNuE >= binMin /\ ev.TrueNuE <= binMax)

InBin(tree, binMin, binMax) ==
    SelectSeq(tree, LAMBDA ev : ev.TrueNuE >= binMin /\ ev.TrueNuE < binMax)

\* lines 155-156: Filter("method > cut")
PassingCut(tree, cut) == SelectSeq(tree, LAMBDA ev : ev.score > cut)

\* lines 135-165: the entry filled for the bin between edges i and i+1
BinRow(energyBinEdges, i, signal, background, cut) ==
    LET binMin    == energyBinEdges[i]
        binMax    == UpperEdge(energyBinEdges, i)
        sigBin    == InBin(signal, binMin, binMax)
        bkgBin    == InBin(background, binMin, binMax)
        nSigTotal == Len(sigBin)
        nBkgTotal == Len(bkgBin)
        nSig      == Len(PassingCut(sigBin, cut))
        nBkg      == Len(PassingCut(bkgBin, cut))
    IN  [binMin   |-> binMin,
         binMax   |-> binMax,
         binMid   |-> Ratio(binMin + binMax, 2),
         binCount |-> nSigTotal + nBkgTotal,
         metrics  |-> ComputeMetrics(nSig, nBkg, nSigTotal)]

\* outputFile before the call: absent, or the table an earlier call wrote
NoOutput == [exists |-> FALSE, rows |-> <<>>]

OldOutput ==
    [exists |-> TRUE,
     rows   |-> <<BinRow(<<0, 1>>, 1, <<[TrueNuE |-> 0, score |-> 1]>>, <<>>, 0)>>]

OutputsBefore == {NoOutput, OldOutput}

\* line 104: TFile::Open(outputFile, "RECREATE") leaves a file with no tree
Recreated == [exists |-> TRUE, rows |-> <<>>]

\* the input of the scenario: edges [0, 5, 10], signal events of energies
\* 1, 1, 6, 6, 6 with scores 0.9, 0.9, 0.9, 0.1, 0.1 (in tenths), cut 0.5
ScenarioEdges == <<0, 5, 10>>

ScenarioEvents ==
    <<[TrueNuE |-> 1, score |-> 9], [TrueNuE |-> 1, score |-> 9],
      [TrueNuE |-> 6, score |-> 9], [TrueNuE |-> 6, score |-> 1],
      [TrueNuE |-> 6, score |-> 1]>>

ScenarioCut == 5

\* lines 85-90: the call is entered; columns says whether the input trees
\* hold the branches TrueNuE and methodName the filters name
CreateEnergyBinnedData(energyBinEdges, accessible, columns, signal, background, cut, pre) ==
    /\ ebd.pc = "idle"
    /\ ebd' = [pc |-> "validate", energyBinEdges |-> energyBinEdges,
               accessible |-> accessible, columns |-> columns,
               signal |-> signal, background |-> background, cut |-> cut,
               pre |-> pre, trace |-> <<>>,
               i |-> 0, rows |-> <<>>, out |-> pre]
    /\ UNCHANGED <<file, hist, proc, goc, others>>

\* lines 93-95
TooFewEdgesLate ==
    /\ ebd.pc = "validate"
    /\ Len(ebd.energyBinEdges) < 2
    /\ ebd' = [ebd EXCEPT !.pc = "failed",
                          !.trace = <<"AccessPathName", "RDataFrame", "RECREATE">>,
                          !.out = Recreated]
    /\ UNCHANGED <<file, hist, proc, goc, others>>

TooFewEdges ==
    /\ ebd.pc = "validate"
    /\ Len(ebd.energyBinEdges) < 2
    /\ ebd' = [ebd EXCEPT !.pc = "failed"]
    /\ UNCHANGED <<file, hist, proc, goc, others>>

\* lines 96-98
NoInputFile ==
    /\ ebd.pc = "validate"
    /\ Len(ebd.energyBinEdges) >= 2
    /\ AccessPathName(ebd.accessible)
    /\ ebd' = [ebd EXCEPT !.pc = "failed", !.trace = <<"AccessPathName">>]
    /\ UNCHANGED <<file, hist, proc, goc, others>>

\* lines 96-131: the input is opened, outputFile is recreated; the tree
\* "data" and its branches
Recreate ==
    /\ ebd.pc = "validate"
    /\ Len(ebd.energyBinEdges) >= 2
    /\ ~AccessPathName(ebd.accessible)
    /\ ebd' = [ebd EXCEPT !.pc = "bins", !.i = 1,
                          !.trace = <<"AccessPathName", "RDataFrame", "RECREATE">>,
                          !.out = Recreated]
    /\ UNCHANGED <<file, hist, proc, goc, others>>

\* lines 140 and 155: Filter throws on an expression that names a branch the
\* tree does not have; the file closes as the call unwinds
UnknownColumn ==
    /\ ebd.pc = "bins"
    /\ ebd.i < Len(ebd.energyBinEdges)
    /\ ~ebd.columns
    /\ ebd' = [ebd EXCEPT !.pc = "failed"]
    /\ UNCHANGED <<file, hist, proc, goc, others>>

\* lines 134-166: one energy bin
FillBin ==
    /\ ebd.pc = "bins"
    /\ ebd.i < Len(ebd.energyBinEdges)
    /\ ebd.columns
    /\ ebd' = [ebd EXCEPT
                 !.rows = Append(ebd.rows,
                                 BinRow(ebd.energyBinEdges, ebd.i, ebd.signal,
                                        ebd.background, ebd.cut)),
                 !.i = ebd.i + 1]
    /\ UNCHANGED <<file, hist, proc, goc, others>>

\* lines 168-171: the tree is written, the call returns
WriteTree ==
    /\ ebd.pc = "bins"
    /\ ebd.i >= Len(ebd.energyBinEdges)
    /\ ebd' = [ebd EXCEPT !.pc = "done", !.out.rows = ebd.rows]
    /\ UNCHANGED <<file, hist, proc, goc, others>>

NextBins ==
    \/ /\ ebd.pc = "idle"
       /\ \/ \E sg \in EventTrees :
               \E bg \in {t \in EventTrees : Len(sg) + Len(t) <= MaxEvents} :
                 \E edges \in EdgeLists, cut \in CutValues,
                    columns \in BOOLEAN, pre \in OutputsBefore :
                   CreateEnergyBinnedData(edges, TRUE, columns, sg, bg, cut, pre)
          \/ \E edges \in EdgeLists, cut \in CutValues, pre \in OutputsBefore :
               CreateEnergyBinnedData(edges, FALSE, TRUE, <<>>, <<>>, cut, pre)
          \/ CreateEnergyBinnedData(ScenarioEdges, TRUE, TRUE, ScenarioEvents,
                                    <<>>, ScenarioCut, NoOutput)
    \/ TooFewEdges
    \/ NoInputFile
    \/ Recreate
    \/ UnknownColumn
    \/ FillBin
    \/ WriteTree

SpecBins == InitCut /\ [][NextBins]_vars

\* either macro is run, GetOptimalCut or CreateEnergyBinnedData
NextEval ==
    \/ ebd.pc = "idle" /\ NextCut
    \/ goc.pc = "idle" /\ NextBins

SpecEval == InitCut /\ [][NextEval]_vars

(***************************************************************************)
(* Properties of the single-writer store.                                  *)
(***************************************************************************)
Called == hist.outcome = "ok"

\* the call found a tree with entries, so it took the copy path (line 77)
OnExisting == Called /\ Len(hist.pre.rows) > 0

KeyMatched == hist.key \in KeysOf(hist.pre.rows)

\* row n of the old table is row n of the new one, with every old column
RowKept(n) ==
    /\ n <= Len(file.rows)
    /\ file.rows[n].key = hist.pre.rows[n].key
    /\ \A c \in hist.pre.cols :
         /\ c \in DOMAIN file.rows[n].vals
         /\ file.rows[n].vals[c] = hist.pre.rows[n].vals[c]

\* C1: after an upsert on a table with entries, every column of the old table
\* that the call did not supply still exists and holds, in every old row, the
\* value it held before.
C1_UnsuppliedColumnsKept ==
    OnExisting =>
        \A c \in hist.pre.cols \ DOMAIN hist.values :
            /\ c \in file.cols
            /\ \A n \in 1..Len(hist.pre.rows) :
                 /\ n <= Len(file.rows)
                 /\ c \in DOMAIN file.rows[n].vals
                 /\ file.rows[n].vals[c] = hist.pre.rows[n].vals[c]

\* C2: an upsert of a key that matches no row of a non-empty table makes the
\* table one row longer and every old row keeps its key and all its values.
C2_InsertKeepsOldRows ==
    (OnExisting /\ ~KeyMatched) =>
        /\ Len(file.rows) = Len(hist.pre.rows) + 1
        /\ \A n \in 1..Len(hist.pre.rows) : RowKept(n)

\* C3: an upsert of a key the table holds leaves the row count unchanged and
\* every row with another key keeps its key and all its values; the matched
\* row keeps its key.
C3_UpdateTouchesOneRow ==
    (OnExisting /\ KeyMatched) =>
        /\ Len(file.rows) = Len(hist.pre.rows)
        /\ \A n \in 1..Len(hist.pre.rows) :
             IF hist.pre.rows[n].key = hist.key
             THEN file.rows[n].key = hist.key
             ELSE RowKept(n)

\* C4: a call that repeats the key and the values of the call before it
\* leaves the table exactly as that call left it (rows, order and content).
C4_Idempotent == hist.repeat => file = hist.pre

C4_Witness ==
    /\ hist.repeat
    /\ Len(file.rows) >= 2
    /\ \E c \in DOMAIN hist.values : hist.values[c] = 1

\* C5: a column the call supplies and the old table lacks is in every row of
\* the new table, 0 in the rows of other keys and the supplied value in the
\* row of the upserted key.
C5_NewColumnDefaultsToZero ==
    OnExisting =>
        \A c \in DOMAIN hist.values \ hist.pre.cols :
            /\ c \in file.cols
            /\ \A n \in 1..Len(file.rows) :
                 /\ c \in DOMAIN file.rows[n].vals
                 /\ file.rows[n].vals[c] =
                      IF file.rows[n].key = hist.key THEN hist.values[c] ELSE 0

C5_Witness ==
    /\ OnExisting
    /\ \E c \in DOMAIN hist.values \ hist.pre.cols : hist.values[c] = 1
    /\ \E n \in 1..Len(file.rows) : file.rows[n].key # hist.key
    /\ \E n \in 1..Len(file.rows) : file.rows[n].key = hist.key

\* C6: no two rows of the table hold the same key.
C6_KeysUnique ==
    \A m, n \in 1..Len(file.rows) : m # n => file.rows[m].key # file.rows[n].key

C6_Witness ==
    /\ OnExisting
    /\ KeyMatched
    /\ Len(file.rows) >= 2

\* C7: the rewritten table keeps the old rows at their positions (so an
\* updated row stays where it was) and a row for a new key comes last.
C7_OrderPreserved ==
    OnExisting =>
        /\ \A n \in 1..Len(hist.pre.rows) :
             /\ n <= Len(file.rows)
             /\ file.rows[n].key = hist.pre.rows[n].key
        /\ IF KeyMatched
           THEN Len(file.rows) = Len(hist.pre.rows)
           ELSE /\ Len(file.rows) = Len(hist.pre.rows) + 1
                /\ file.rows[Len(file.rows)].key = hist.key

C7_Witness ==
    /\ OnExisting
    /\ ~KeyMatched
    /\ Len(hist.pre.rows) >= 2
    /\ file.rows[Len(file.rows)].key = hist.key

(***************************************************************************)
(* Properties of interrupted and of parallel calls.                        *)
(***************************************************************************)
\* the table the call of p leaves when it runs alone to its end
PostOf(p) == UpsertResult(proc[p].pre, proc[p].key, proc[p].values)

\* C8: wherever the call is interrupted, treeName holds the complete table
\* of before the call or the complete table of after it.
C8_ReplacedAtomically ==
    \A p \in Writers :
        proc[p].pc = "interrupted" => (file = proc[p].pre \/ file = PostOf(p))

\* C9: when both GetOptimalCut calls have returned, the results table holds
\* a row for each of the two methods, with the values that method logged.
C9_ParallelKeepsBothRows ==
    (\A p \in Writers : proc[p].pc = "done") =>
        \A p \in Writers :
            \E n \in 1..Len(file.rows) :
                /\ file.rows[n].key = Method(p)
                /\ file.rows[n].vals = proc[p].values

Swept == goc.pc \in {"maximise", "getmaximum", "read", "log", "done"}

\* bestCut has been chosen
Chosen == goc.pc \in {"getmaximum", "read", "log", "done"}

\* the events of a sample with minScore <= score < maxScore
InRange(sample) ==
    {e \in DOMAIN sample : MinScore <= sample[e] /\ sample[e] < MaxScore}

\* the events of a sample that lie in the bin of lower edge cut or in a
\* higher bin
AtOrAbove(sample, cut) == {e \in InRange(sample) : sample[e] >= cut}

\* C11: the FoM at the cut GetOptimalCut returns is greater than or equal to
\* the FoM of every one of the nBins sweep points.
C11_BestCutDominatesSweep ==
    Chosen =>
        \A i \in DOMAIN goc.cuts :
            ~Less(SplineVal(goc.cuts, goc.fomValues, goc.bestCut), goc.fomValues[i])

\* C12: with totalSignal > 0 the efficiency of every sweep point lies in
\* [0, 1] and the efficiency does not increase from one cut to the next.
C12_EfficiencyMonotone ==
    Swept =>
        \A i \in DOMAIN goc.efficiencies :
            /\ goc.efficiencies[i].den > 0
            /\ 0 <= goc.efficiencies[i].num
            /\ goc.efficiencies[i].num <= goc.efficiencies[i].den
            /\ i > 1 => ~Less(goc.efficiencies[i - 1], goc.efficiencies[i])

\* a sweep whose efficiency falls to a value strictly between 0 and 1
C12_Witness ==
    /\ Swept
    /\ \E i \in DOMAIN goc.efficiencies :
         /\ i > 1
         /\ Less(goc.efficiencies[i], goc.efficiencies[i - 1])
         /\ Less(Zero, goc.efficiencies[i])

\* C13: the sweep yields nBins points in ascending cut order; point i has the
\* lower edge of bin i as cut, efficiency tp / totalSignal and purity
\* tp / (tp + fp), tp and fp the signal and background events in bins
\* i..nBins.  With nBins = 4 on [0, 1), signal (0.9, 0.8, 0.7, 0.2) and
\* background (0.1, 0.2, 0.3, 0.9), the point at cut 0.75 has efficiency 1/2,
\* purity 2/3 and FoM 1/3.
C13_SweepPoints ==
    Swept =>
        /\ DOMAIN goc.cuts = 1..NBins
        /\ DOMAIN goc.efficiencies = 1..NBins
        /\ DOMAIN goc.purities = 1..NBins
        /\ DOMAIN goc.fomValues = 1..NBins
        /\ \A i \in 1..NBins :
             LET tp == Cardinality(AtOrAbove(goc.signal, goc.cuts[i]))
                 fp == Cardinality(AtOrAbove(goc.background, goc.cuts[i]))
             IN  /\ goc.cuts[i] * NBins = MinScore * NBins + (i - 1) * (MaxScore - MinScore)
                 /\ i > 1 => goc.cuts[i - 1] < goc.cuts[i]
                 /\ goc.efficiencies[i].num * goc.totalSignal = tp * goc.efficiencies[i].den
                 /\ tp + fp > 0 =>
                      goc.purities[i].num * (tp + fp) = tp * goc.purities[i].den
        /\ (NBins = 4 /\ goc.signal = ScenarioSignal /\ goc.background = ScenarioBackground) =>
             /\ goc.cuts[4] = 6
             /\ goc.efficiencies[4] = [num |-> 1, den |-> 2]
             /\ goc.purities[4] = [num |-> 2, den |-> 3]
             /\ goc.fomValues[4] = [num |-> 1, den |-> 3]

\* the sweep of the scenario
C13_Witness ==
    /\ Swept
    /\ goc.signal = ScenarioSignal
    /\ goc.background = ScenarioBackground

\* the entries CreateEnergyBinnedData has filled
Rows == IF "rows" \in DOMAIN ebd THEN ebd.rows ELSE <<>>

\* the events of a tree with binMin <= TrueNuE < binMax of entry r
EventsIn(tree, r) ==
    {e \in DOMAIN tree : r.binMin <= tree[e].TrueNuE /\ tree[e].TrueNuE < r.binMax}

\* those of them whose score is above the cut
Selected(tree, r) == {e \in EventsIn(tree, r) : tree[e].score > ebd.cut}

ZeroErr == Sqrt(Zero)

IsProduct(fom, efficiency, purity) ==
    /\ fom.den > 0
    /\ fom.num * efficiency.den * purity.den = efficiency.num * purity.num * fom.den

\* C14: the FoM is the product of efficiency and purity at every sweep point
\* of GetOptimalCut and in every result of ComputeMetrics, the points and
\* results with a zero denominator included.
C14_FoMIsProduct ==
    /\ Swept =>
         \A i \in DOMAIN goc.fomValues :
            IsProduct(goc.fomValues[i], goc.efficiencies[i], goc.purities[i])
    /\ \A n \in DOMAIN Rows :
         IsProduct(Rows[n].metrics.fom, Rows[n].metrics.efficiency,
                   Rows[n].metrics.purity)

\* the entries of a bin without events and of a bin where half of the signal
\* passes the cut
C14_Witness ==
    /\ ebd.pc = "done"
    /\ \E n \in DOMAIN Rows : Rows[n].binCount = 0
    /\ \E n \in DOMAIN Rows :
         /\ Less(Zero, Rows[n].metrics.fom)
         /\ Rows[n].metrics.fom.num < Rows[n].metrics.fom.den

\* C15: totalSignal, the integral of the signal histogram, is the number of
\* events of the signal sample, whatever their scores.
C15_TotalIsSampleSize ==
    "totalSignal" \in DOMAIN goc => goc.totalSignal = Len(goc.signal)

\* C16: the call fails when the input file can not be accessed or the signal
\* total is <= 0; the failure comes before any efficiency is computed (none is
\* 0/0), no cut is returned and the results table is not written.
C16_FailsBeforeSweep ==
    /\ (/\ goc.pc \notin {"idle", "check"}
        /\ (~goc.accessible \/ Cardinality(InRange(goc.signal)) <= 0))
         => goc.pc = "failed"
    /\ goc.pc = "failed" =>
         /\ DOMAIN goc \cap {"cuts", "efficiencies", "purities", "fomValues",
                             "bestCut", "bestFoM", "bestEff", "bestPur"} = {}
         /\ file = goc.pre
         /\ hist = NoCall
    /\ Swept => \A i \in DOMAIN goc.efficiencies : goc.efficiencies[i] # NaN

\* a call that was to log its result failed on a signal tree whose events
\* all lie outside the histogram
C16_Witness ==
    /\ goc.pc = "failed"
    /\ goc.accessible
    /\ goc.logging
    /\ Len(goc.signal) > 0

\* C17: the results table is written only by a call with a resultsFile, and
\* then by one upsert made after the optimum is known: key branch "Method",
\* key the method name, columns MaxCut, Efficiency, Purity and FoM.
C17_LogsOnceWhenAsked ==
    /\ (goc.pc \notin {"idle", "done"} \/ (goc.pc = "done" /\ ~goc.logging)) =>
         /\ file = goc.pre
         /\ hist = NoCall
    /\ (goc.pc = "done" /\ goc.logging) =>
         /\ hist.outcome = "ok"
         /\ ~hist.repeat
         /\ hist.keyBranch = "Method"
         /\ hist.key = goc.mvaBranch
         /\ DOMAIN hist.values = {"MaxCut", "Efficiency", "Purity", "FoM"}
         /\ hist.values["MaxCut"] = goc.bestCut
         /\ hist.pre = goc.pre
         /\ file = UpsertResult(goc.pre, goc.mvaBranch, hist.values)
         /\ file.cols = {"MaxCut", "Efficiency", "Purity", "FoM"}

\* a result was logged
C17_Witness ==
    /\ goc.pc = "done"
    /\ goc.logging
    /\ Len(file.rows) = 1
    /\ file.rows[1].key = goc.mvaBranch

\* C18: when the file can not be opened for update the call throws before it
\* reads, creates or writes a tree, and the table is as it was.
C18_OpenFailureLeavesTable ==
    \A p \in Writers :
        proc[p].pc = "failed" =>
            /\ file = proc[p].pre
            /\ proc[p].tree = Idle.tree
            /\ proc[p].upd = Idle.upd
            /\ proc[p].n = Idle.n

\* the open failed on a file that holds a table with rows
C18_Witness ==
    /\ proc["W1"].pc = "failed"
    /\ Len(file.rows) >= 2

\* C19: ComputeMetrics does not fail on counts of zero: totalSignal <= 0 gives
\* efficiency 0 and effErr 0, nSig + nBkg <= 0 gives purity 0 and purErr 0,
\* either gives fom 0 and fomErr 0; the entry of a bin without signal events
\* holds six zeros and the call does not fail for it.
C19_DegenerateCountsGiveZeros ==
    /\ \A n \in DOMAIN Rows :
         LET m           == Rows[n].metrics
             totalSignal == Cardinality(EventsIn(ebd.signal, Rows[n]))
             nSig        == Cardinality(Selected(ebd.signal, Rows[n]))
             nBkg        == Cardinality(Selected(ebd.background, Rows[n]))
         IN  /\ totalSignal <= 0 => (m.efficiency = Zero /\ m.effErr = ZeroErr)
             /\ nSig + nBkg <= 0 => (m.purity = Zero /\ m.purErr = ZeroErr)
             /\ (totalSignal <= 0 \/ nSig + nBkg <= 0) =>
                  (m.fom = Zero /\ m.fomErr = ZeroErr)
             /\ totalSignal = 0 =>
                  m = [efficiency |-> Zero, purity |-> Zero, fom |-> Zero,
                       effErr |-> ZeroErr, purErr |-> ZeroErr, fomErr |-> ZeroErr]
    /\ ebd.pc = "failed" =>
         (Len(ebd.energyBinEdges) < 2 \/ ~ebd.accessible \/ ~ebd.columns)

\* the written tree holds the entry of a bin with background and no signal
C19_Witness ==
    /\ ebd.pc = "done"
    /\ \E n \in DOMAIN ebd.out.rows :
         /\ ebd.out.rows[n].binCount > 0
         /\ EventsIn(ebd.signal, ebd.out.rows[n]) = {}
         /\ Selected(ebd.background, ebd.out.rows[n]) # {}

\* C20 as claimed: effErr is 0 exactly when totalSignal is 0.
C20_EffErrZeroOnlyWithoutSignal ==
    \A n \in DOMAIN Rows :
        (Rows[n].metrics.effErr = ZeroErr) <=>
            (Cardinality(EventsIn(ebd.signal, Rows[n])) = 0)

\* C20: effErr is 0 whenever totalSignal is 0; for totalSignal > 0 effErr is 0
\* exactly when the efficiency is 0 or 1, that is when no signal event or
\* every signal event of the bin passes the cut.
C20_EffErrZeroAtZeroOrOne ==
    \A n \in DOMAIN Rows :
        LET totalSignal == Cardinality(EventsIn(ebd.signal, Rows[n]))
            nSig        == Cardinality(Selected(ebd.signal, Rows[n]))
        IN  /\ totalSignal = 0 => Rows[n].metrics.effErr = ZeroErr
            /\ totalSignal > 0 =>
                 ((Rows[n].metrics.effErr = ZeroErr) <=> (nSig = 0 \/ nSig = totalSignal))

\* a bin whose signal events all pass the cut, and one where half of them do
C20_Witness ==
    /\ \E n \in DOMAIN Rows :
         /\ Cardinality(EventsIn(ebd.signal, Rows[n])) > 0
         /\ Selected(ebd.signal, Rows[n]) = EventsIn(ebd.signal, Rows[n])
         /\ Rows[n].metrics.effErr = ZeroErr

(***************************************************************************)
(* CreateEnergyBinnedData: the table, the bins and the failures.           *)
(***************************************************************************)
\* the events of a tree with lo <= TrueNuE < hi
Between(tree, lo, hi) == {e \in DOMAIN tree : lo <= tree[e].TrueNuE /\ tree[e].TrueNuE < hi}

\* those of them whose score is above the cut of the call
Above(tree, lo, hi) == {e \in Between(tree, lo, hi) : tree[e].score > ebd.cut}

Finished == ebd.pc = "done"

\* C21: for n >= 2 edges the written table has exactly n - 1 entries, in the
\* order of the edges; entry i has binMin = edges[i], binMax = edges[i+1],
\* binMid their midpoint, and binCount the number of signal events plus the
\* number of background events of that bin.
C21_OneRowPerBin ==
    Finished =>
        LET edges == ebd.energyBinEdges
        IN  /\ Len(edges) >= 2
            /\ Len(ebd.out.rows) = Len(edges) - 1
            /\ \A i \in 1..(Len(edges) - 1) :
                 LET r == ebd.out.rows[i]
                 IN  /\ r.binMin = edges[i]
                     /\ r.binMax = edges[i + 1]
                     /\ r.binMid.den > 0
                     /\ 2 * r.binMid.num = (edges[i] + edges[i + 1]) * r.binMid.den
                     /\ r.binCount =
                          Cardinality(Between(ebd.signal, edges[i], edges[i + 1]))
                          + Cardinality(Between(ebd.background, edges[i], edges[i + 1]))

\* a table of two entries or more, one of them counting a signal event and a
\* background event
C21_Witness ==
    /\ Finished
    /\ Len(ebd.out.rows) >= 2
    /\ \E i \in DOMAIN ebd.out.rows :
         /\ ebd.out.rows[i].binCount = 2
         /\ Between(ebd.signal, ebd.energyBinEdges[i], ebd.energyBinEdges[i + 1]) # {}
         /\ Between(ebd.background, ebd.energyBinEdges[i], ebd.energyBinEdges[i + 1]) # {}

RECURSIVE SumOfCounts(_)
SumOfCounts(rows) ==
    IF rows = <<>> THEN 0 ELSE rows[1].binCount + SumOfCounts(Tail(rows))

\* the call of the scenario has returned
ScenarioDone ==
    /\ Finished
    /\ ebd.energyBinEdges = ScenarioEdges
    /\ ebd.signal = ScenarioEvents
    /\ ebd.cut = ScenarioCut

\* what C22 says of every call: bin i counts the events with
\* edges[i] <= energy < edges[i+1], so an event is counted in one bin at most,
\* and the efficiency of a bin with signal is the share of its signal events
\* with score > cut
HalfOpenBins ==
    LET edges == ebd.energyBinEdges
    IN  /\ \A i \in DOMAIN Rows :
             LET inBin   == Between(ebd.signal, edges[i], edges[i + 1])
                 passing == Above(ebd.signal, edges[i], edges[i + 1])
             IN  /\ Rows[i].binCount =
                      Cardinality(inBin)
                      + Cardinality(Between(ebd.background, edges[i], edges[i + 1]))
                 /\ inBin # {} =>
                      Rows[i].metrics.efficiency =
                          Ratio(Cardinality(passing), Cardinality(inBin))
        /\ Finished =>
             SumOfCounts(ebd.out.rows) =
                 Cardinality(Between(ebd.signal, edges[1], edges[Len(edges)]))
                 + Cardinality(Between(ebd.background, edges[1], edges[Len(edges)]))

C23_TooFewEdgesFailsFirst ==
    (ebd.pc # "idle" /\ Len(ebd.energyBinEdges) < 2) =>
        /\ ebd.pc \in {"validate", "failed"}
        /\ ebd.trace = <<>>
        /\ ebd.out = ebd.pre
        /\ ebd.rows = <<>>

\* the call failed on one edge while outputFile held a table
C23_Witness ==
    /\ ebd.pc = "failed"
    /\ Len(ebd.energyBinEdges) = 1
    /\ ebd.pre = OldOutput
    /\ ebd.out = OldOutput

\* C24: the call leaves the complete table or, when it fails, leaves
\* outputFile as it was: no file emptied by RECREATE, no table lost.
C24_CompleteOrUntouched ==
    /\ Finished => Len(ebd.out.rows) = Len(ebd.energyBinEdges) - 1
    /\ ebd.pc = "failed" => ebd.out = ebd.pre

(***************************************************************************)
(* CreateTimestampedDir.  The clock counts ticks; TDatime reads it.        *)
(***************************************************************************)
BaseDirs == {"output/runs/", "output/tests/"}

\* lines 25-30: the fields of TDatime the macro reads; the seconds are not
\* among them
TDatime(clock) == [minute |-> clock \div TicksPerMinute]

\* line 33: sprintf(timestamp, "run_%04d%02d%02d_%02d%02d", ...)
Timestamp(now) == <<"run_", now.minute>>

\* line 36: baseOutputDir + timestamp + "/"
OutputDir(baseOutputDir, timestamp) == <<baseOutputDir, timestamp, "/">>

\* time passes between calls
Tick ==
    /\ dirs.now < MaxClock
    /\ dirs' = [dirs EXCEPT !.now = dirs.now + 1]
    /\ UNCHANGED <<file, hist, proc, goc, ebd, cvn, split, demo, calls>>

\* lines 22-43: mkdir of a directory that exists already changes nothing
CreateTimestampedDir(baseOutputDir) ==
    /\ Len(dirs.returned) < MaxCalls
    /\ LET outputDir == OutputDir(baseOutputDir, Timestamp(TDatime(dirs.now)))
       IN  dirs' = [dirs EXCEPT
                      !.made = dirs.made \cup {outputDir},
                      !.returned = Append(dirs.returned,
                                          [baseOutputDir |-> baseOutputDir,
                                           outputDir |-> outputDir])]
    /\ UNCHANGED <<file, hist, proc, goc, ebd, cvn, split, demo, calls>>

NextDirs ==
    \/ Tick
    \/ \E b \in BaseDirs : CreateTimestampedDir(b)

SpecDirs == Init /\ [][NextDirs]_vars

\* C25: every call returns a path different from the path of every earlier
\* call with the same base, two calls within one minute included.
C25_PathsDistinct ==
    \A a, b \in DOMAIN dirs.returned :
        (a < b /\ dirs.returned[a].baseOutputDir = dirs.returned[b].baseOutputDir)
            => dirs.returned[a].outputDir # dirs.returned[b].outputDir

(***************************************************************************)
(* addCVNMax of FilterInputData, one statement at a time.                  *)
(***************************************************************************)
InteractionType == {"NuE", "NuMu", "NC"}

CVNScores == 0..MaxCVN

\* lines 52-54
AddCVNMax(signalType, cvnNuE, cvnNuMu, cvnNC) ==
    /\ cvn.pc = "idle"
    /\ cvn' = [pc |-> "nue", signalType |-> signalType, cvnNuE |-> cvnNuE,
               cvnNuMu |-> cvnNuMu, cvnNC |-> cvnNC,
               maxScore |-> cvnNuMu, predictedClass |-> "NuMu", result |-> 0]
    /\ UNCHANGED <<file, hist, proc, goc, ebd, dirs, split, demo, calls>>

\* lines 55-56: the test of both if statements
ExceedsNuMu(score, maxScore, cvnNuMu) == score > cvnNuMu

Exceeds(score, maxScore, cvnNuMu) == score > maxScore

\* line 55
CompareNuE ==
    /\ cvn.pc = "nue"
    /\ cvn' = IF Exceeds(cvn.cvnNuE, cvn.maxScore, cvn.cvnNuMu)
              THEN [cvn EXCEPT !.pc = "nc", !.maxScore = cvn.cvnNuE,
                               !.predictedClass = "NuE"]
              ELSE [cvn EXCEPT !.pc = "nc"]
    /\ UNCHANGED <<file, hist, proc, goc, ebd, dirs, split, demo, calls>>

\* line 56
CompareNC ==
    /\ cvn.pc = "nc"
    /\ cvn' = IF Exceeds(cvn.cvnNC, cvn.maxScore, cvn.cvnNuMu)
              THEN [cvn EXCEPT !.pc = "return", !.maxScore = cvn.cvnNuMu,
                               !.predictedClass = "NC"]
              ELSE [cvn EXCEPT !.pc = "return"]
    /\ UNCHANGED <<file, hist, proc, goc, ebd, dirs, split, demo, calls>>

\* line 58
ReturnCVNMax ==
    /\ cvn.pc = "return"
    /\ cvn' = [cvn EXCEPT !.pc = "done",
                          !.result = IF cvn.predictedClass = cvn.signalType
                                     THEN 1 ELSE 0]
    /\ UNCHANGED <<file, hist, proc, goc, ebd, dirs, split, demo, calls>>

NextCVN ==
    \/ \E t \in InteractionType, e, mu, nc \in CVNScores : AddCVNMax(t, e, mu, nc)
    \/ CompareNuE
    \/ CompareNC
    \/ ReturnCVNMax

SpecCVN == Init /\ [][NextCVN]_vars

\* the class with the largest score; NuMu wins a tie, then NuE, then NC
Largest(cvnNuE, cvnNuMu, cvnNC) ==
    IF cvnNuMu >= cvnNuE /\ cvnNuMu >= cvnNC THEN "NuMu"
    ELSE IF cvnNuE >= cvnNC THEN "NuE"
    ELSE "NC"

\* C27: addCVNMax returns 1.0 exactly when signalType is the class with the
\* largest of the three scores (ties go to NuMu, then NuE, then NC); the
\* value maxScore gets on the NC branch is cvnNuMu and has no effect on the
\* predicted class or on the returned value.
C27_ReturnsOneForLargest ==
    /\ cvn.pc \in {"return", "done"} =>
         /\ cvn.predictedClass = Largest(cvn.cvnNuE, cvn.cvnNuMu, cvn.cvnNC)
         /\ cvn.predictedClass = "NC" => cvn.maxScore = cvn.cvnNuMu
    /\ cvn.pc = "done" =>
         (cvn.result = 1 <=>
              cvn.signalType = Largest(cvn.cvnNuE, cvn.cvnNuMu, cvn.cvnNC))

\* NC is the signal and has the largest score, above NuE which is above NuMu
C27_Witness ==
    /\ cvn.pc = "done"
    /\ cvn.signalType = "NC"
    /\ cvn.cvnNC > cvn.cvnNuE
    /\ cvn.cvnNuE > cvn.cvnNuMu
    /\ cvn.result = 1

(***************************************************************************)
(* The train/test split of TrainClassificationModel.                       *)
(***************************************************************************)
Counts == 0..MaxCount

\* trainRatio in [0, 1]
TrainRatios == {Ratio(k, RatioSteps) : k \in 0..RatioSteps}

\* std::llround of a value >= 0: the nearest integer, halfway cases upwards
LLRound(v) == (2 * v.num + v.den) \div (2 * v.den)

\* lines 108-117: the trees are read
TrainClassificationModel(nSignal, nBackground, trainRatio) ==
    /\ split.pc = "idle"
    /\ split' = [pc |-> "split", nSignal |-> nSignal, nBackground |-> nBackground,
                 trainRatio |-> trainRatio,
                 nTrain |-> 0, nSignalTest |-> 0, nBackgroundTest |-> 0]
    /\ UNCHANGED <<file, hist, proc, goc, ebd, dirs, cvn, demo, calls>>

\* lines 152-153
SplitSignal ==
    /\ split.pc = "split"
    /\ LET nTrain == LLRound(Ratio(split.trainRatio.num * split.nSignal,
                                   split.trainRatio.den))
       IN  split' = [split EXCEPT !.pc = "divide", !.nTrain = nTrain,
                                  !.nSignalTest = split.nSignal - nTrain]
    /\ UNCHANGED <<file, hist, proc, goc, ebd, dirs, cvn, demo, calls>>

\* line 154, nSignal # 0
SplitBackground ==
    /\ split.pc = "divide"
    /\ split.nSignal # 0
    /\ split' = [split EXCEPT
                   !.pc = "prepare",
                   !.nBackgroundTest =
                       (split.nBackground * split.nSignalTest) \div split.nSignal]
    /\ UNCHANGED <<file, hist, proc, goc, ebd, dirs, cvn, demo, calls>>

\* line 154, nSignal = 0: an integer division by zero, which traps or leaves
\* any value
DivideByZero ==
    /\ split.pc = "divide"
    /\ split.nSignal = 0
    /\ \/ split' = [split EXCEPT !.pc = "trapped"]
       \/ \E any \in Counts :
            split' = [split EXCEPT !.pc = "prepare", !.nBackgroundTest = any]
    /\ UNCHANGED <<file, hist, proc, goc, ebd, dirs, cvn, demo, calls>>

\* lines 156-162: nTrain_Signal = nTrain_Background = nTrain,
\* nTest_Signal = nSignalTest, nTest_Background = nBackgroundTest
PrepareTrainingAndTestTree ==
    /\ split.pc = "prepare"
    /\ split' = [split EXCEPT !.pc = "done"]
    /\ UNCHANGED <<file, hist, proc, goc, ebd, dirs, cvn, demo, calls>>

NextSplit ==
    \/ \E s, b \in Counts, r \in TrainRatios : TrainClassificationModel(s, b, r)
    \/ SplitSignal
    \/ SplitBackground
    \/ DivideByZero
    \/ PrepareTrainingAndTestTree

SpecSplit == Init /\ [][NextSplit]_vars

\* C30: for every nSignal >= 0, nBackground >= 0 and trainRatio in [0, 1] the
\* split is defined and asks for no more events than there are:
\* nTrain + nSignalTest = nSignal, nTrain + nBackgroundTest <= nBackground,
\* and the division by nSignal is never a division by zero.
C30_SplitDefined ==
    /\ split.pc # "trapped"
    /\ split.pc = "divide" => split.nSignal # 0
    /\ split.pc = "done" =>
         /\ split.nTrain + split.nSignalTest = split.nSignal
         /\ split.nTrain + split.nBackgroundTest <= split.nBackground

(***************************************************************************)
(* The store as a map: one writer, one set of value columns, a table that  *)
(* does not exist before the first call.                                   *)
(***************************************************************************)
\* `values` with every column
FixedValueMaps == [Cols -> Vals]

\* lines 45-147: a whole call, remembered in calls
Upsert(keyValue, values) ==
    /\ Len(calls) < MaxUpserts
    /\ file' = UpsertResult(file, keyValue, values)
    /\ calls' = Append(calls, [key |-> keyValue, values |-> values])
    /\ UNCHANGED <<hist, proc, goc, ebd, dirs, cvn, split, demo>>

NextMap == \E k \in Keys, v \in FixedValueMaps : Upsert(k, v)

SpecMap == InitCut /\ [][NextMap]_vars

\* the keys of a sequence of calls, each once, in the order of their first call
RECURSIVE FirstUpserts(_)
FirstUpserts(cs) ==
    IF cs = <<>> THEN <<>>
    ELSE LET before == FirstUpserts(SubSeq(cs, 1, Len(cs) - 1))
             k      == cs[Len(cs)].key
         IN  IF \E n \in DOMAIN before : before[n] = k
             THEN before ELSE Append(before, k)

\* the values of the last call for key k
LatestValues(cs, k) ==
    LET last == CHOOSE n \in DOMAIN cs :
                    /\ cs[n].key = k
                    /\ \A m \in DOMAIN cs : cs[m].key = k => m <= n
    IN  cs[last].values

\* the table a map with insertion order holds after the calls cs
MapTable(cs) ==
    LET order == FirstUpserts(cs)
    IN  [n \in 1..Len(order) |->
            [key |-> order[n], vals |-> LatestValues(cs, order[n])]]

\* C26: with one writer and one set of value columns, starting from a table
\* that does not exist, the table after any sequence of calls has exactly one
\* row per key upserted, each row with the latest values of its key, the rows
\* in the order in which their keys were first upserted.
C26_TableIsMap ==
    /\ calls = <<>> => file = Missing
    /\ calls # <<>> =>
         /\ file.exists
         /\ file.cols = Cols
         /\ file.rows = MapTable(calls)

\* a key is upserted, then another, then the first again with other values
C26_Witness ==
    /\ Len(calls) = 3
    /\ calls[1].key = calls[3].key
    /\ calls[1].key # calls[2].key
    /\ calls[1].values # calls[3].values
    /\ Len(file.rows) = 2

(***************************************************************************)
(* DemoPipeline run again and again in one working directory.              *)
(***************************************************************************)
\* DemoPipeline.C lines 45-49: the methods, in the order of the vector
DemoMethods == <<"MLP", "BDT_AdaBoost", "BDT_GradBoost">>

\* DemoPipeline.C line 37
methodSuffix == "demo"

\* DemoPipeline.C line 60: m.name + "_" + methodSuffix
MethodNamePerRun(m, run) == <<DemoMethods[m], "_", methodSuffix, run>>

MethodName(m, run) == <<DemoMethods[m], "_", methodSuffix>>

\* DemoPipeline.C lines 32-56: a run starts, the data is filtered and the
\* methods are trained
DemoPipeline ==
    /\ demo.pc \in {"idle", "done", "failed"}
    /\ demo.runs < MaxRuns
    /\ demo' = [pc |-> "evaluate", runs |-> demo.runs + 1, m |-> 1]
    /\ UNCHANGED <<file, hist, proc, goc, ebd, dirs, cvn, split, calls>>

\* DemoPipeline.C lines 58-66: GetOptimalCut for the next method, which logs
\* its result g to the tree Performance of ModelResults.root
EvaluateMethod(g) ==
    /\ demo.pc = "evaluate"
    /\ demo.m <= Len(DemoMethods)
    /\ LET methodName == MethodName(demo.m, demo.runs)
       IN  /\ file' = UpsertResult(file, methodName, LogValuesOf(g))
           /\ calls' = Append(calls, [key |-> methodName, values |-> LogValuesOf(g)])
    /\ demo' = [demo EXCEPT !.m = demo.m + 1]
    /\ UNCHANGED <<hist, proc, goc, ebd, dirs, cvn, split>>

\* GetOptimalCut.C lines 58-60 and 73-76: GetOptimalCut throws, the run ends
EvaluationThrows ==
    /\ demo.pc = "evaluate"
    /\ demo.m <= Len(DemoMethods)
    /\ demo' = [demo EXCEPT !.pc = "failed"]
    /\ UNCHANGED <<file, hist, proc, goc, ebd, dirs, cvn, split, calls>>

\* DemoPipeline.C lines 68-95: the confusion matrix, the energy bins, the end
FinishPipeline ==
    /\ demo.pc = "evaluate"
    /\ demo.m > Len(DemoMethods)
    /\ demo' = [demo EXCEPT !.pc = "done"]
    /\ UNCHANGED <<file, hist, proc, goc, ebd, dirs, cvn, split, calls>>

NextDemo ==
    \/ DemoPipeline
    \/ \E g \in Evaluations : EvaluateMethod(g)
    \/ EvaluationThrows
    \/ FinishPipeline

SpecDemo == Init /\ [][NextDemo]_vars

\* C29: however often DemoPipeline is run, the table Performance never holds
\* two rows of one method; after a run that reached its end it holds exactly
\* one row for each of MLP_demo, BDT_AdaBoost_demo and BDT_GradBoost_demo, in
\* that order, with MaxCut, Efficiency, Purity and FoM as that run logged them.
C29_OneRowPerMethod ==
    /\ \A a, b \in DOMAIN file.rows : a # b => file.rows[a].key # file.rows[b].key
    /\ file.rows = MapTable(calls)
    /\ demo.pc = "done" =>
         /\ Len(file.rows) = Len(DemoMethods)
         /\ \A m \in DOMAIN DemoMethods :
              /\ file.rows[m].key = <<DemoMethods[m], "_", "demo">>
              /\ file.rows[m].vals = calls[Len(calls) - Len(DemoMethods) + m].values
              /\ DOMAIN file.rows[m].vals = {"MaxCut", "Efficiency", "Purity", "FoM"}

\* a second run has ended and logged another result for MLP_demo than the
\* run before it
C29_Witness ==
    /\ demo.pc = "done"
    /\ demo.runs = 2
    /\ Len(calls) = 6
    /\ calls[1].values # calls[4].values
    /\ file.rows[1].vals = calls[4].values

(***************************************************************************)
(* A cut of the sweep applied to the events, as TMVAReaderWrapper,         *)
(* CreateConfusionMatrix and CreateEnergyBinnedData apply it.              *)
(***************************************************************************)
\* TMVAReaderWrapper.C line 129: (mvaScore > optCut); the filters
\* "mvaBranch > cut" of CreateConfusionMatrix.C lines 66-70 and
\* CreateEnergyBinnedData.C lines 155-156 make the same comparison, a bin
\* lower edge being printed as it is
PassesCut(mvaScore, optCut) == mvaScore > optCut

\* TMVAReaderWrapper.C lines 108-136: the cut of sweep point i is applied to
\* the signal events; each gets 1.0 or 0.0
ApplyToTree(i) ==
    /\ goc.pc = "done"
    /\ goc' = [pc           |-> "applied",
               signal       |-> goc.signal,
               totalSignal  |-> goc.totalSignal,
               cuts         |-> goc.cuts,
               efficiencies |-> goc.efficiencies,
               optCut       |-> goc.cuts[i],
               point        |-> i,
               passed       |-> [e \in DOMAIN goc.signal |->
                                    IF PassesCut(goc.signal[e], goc.cuts[i])
                                    THEN 1 ELSE 0]]
    /\ UNCHANGED <<file, hist, proc, ebd, others>>

NextApply ==
    \/ NextCut
    \/ \E i \in 1..NBins : ApplyToTree(i)

SpecApply == InitCut /\ [][NextApply]_vars

\* C28: for a cut at the lower edge of a bin, the true positives the sweep
\* counts at that cut are the in-range signal events that pass the cut where
\* it is applied (score > cut), events whose score equals the cut included.
C28_SweepAgreesWithCut ==
    goc.pc = "applied" =>
        goc.efficiencies[goc.point] =
            Ratio(Cardinality({e \in InRange(goc.signal) : goc.passed[e] = 1}),
                  goc.totalSignal)

====
